---- MODULE Spec2Model ----
(***************************************************************************)
(* The embedded-browser host (ProductionWebView) and its capability        *)
(* router, in the three versions of the component the repository holds:    *)
(*   "A"  src/unnamed/part_000                 (location, back handler)    *)
(*   "B"  src/components/ProductionWebView.tsx (the one the tab imports)   *)
(*   "C"  src/unnamed/part_001                 (bundled page, extra        *)
(*                                              permission query)         *)
(* Wire messages are JSON texts, modelled as token sequences that          *)
(* JSONStringify writes and JSONParse reads.                               *)
(***************************************************************************)
EXTENDS Integers, Sequences, FiniteSets, TLC

\* ------------------------------------------------------------ bounds

\* inbound messages the page posts during one run
MaxMsgs == 2
\* navigation-state changes the browser reports during one run
MaxNav == 1
\* page loads the browser starts during one run
MaxLoads == 2
\* hardware back presses during one run
MaxBack == 2

\* ------------------------------------------------------------ JS values

\* A JavaScript value: k is its kind, s the text of a string or number,
\* m the members of an object in insertion order (<<key, value>> pairs).
JVal(k, s, m) == [k |-> k, s |-> s, m |-> m]
JUndef == JVal("undef", "", <<>>)
JNull == JVal("null", "", <<>>)
JStr(s) == JVal("str", s, <<>>)
JNum(s) == JVal("num", s, <<>>)
JObj(m) == JVal("obj", "", m)

\* obj.key: the last member of that name (JSON.parse keeps the last
\* duplicate), undefined when there is none or obj is no object.
RECURSIVE LastMember(_, _, _)
LastMember(m, key, i) ==
    IF i = 0 THEN JUndef
    ELSE IF m[i][1] = key THEN m[i][2]
    ELSE LastMember(m, key, i - 1)

GetProp(v, key) ==
    IF v.k = "obj" THEN LastMember(v.m, key, Len(v.m)) ELSE JUndef

\* a ?? d
Nullish(a, d) == IF a.k \in {"undef", "null"} THEN d ELSE a

\* a || d : the empty string is falsy too
Falsy(a) == a.k \in {"undef", "null"} \/ (a.k = "str" /\ a.s = "")
OrElse(a, d) == IF Falsy(a) THEN d ELSE a

\* ------------------------------------------------------------ JSON text

Tok(t, v) == [t |-> t, v |-> v]
LBrace == Tok("p", "{")
RBrace == Tok("p", "}")
Colon == Tok("p", ":")
Comma == Tok("p", ",")
TNull == Tok("null", "null")
TStr(s) == Tok("str", s)
TNum(s) == Tok("num", s)
TBad(s) == Tok("bad", s)

\* JSON.stringify of a value: members whose value is undefined are left out.
RECURSIVE JSONStringify(_), StringifyMembers(_, _, _)
JSONStringify(v) ==
    CASE v.k = "null" -> <<TNull>>
      [] v.k = "str" -> <<TStr(v.s)>>
      [] v.k = "num" -> <<TNum(v.s)>>
      [] v.k = "obj" -> <<LBrace>> \o StringifyMembers(v.m, 1, TRUE) \o <<RBrace>>
      [] OTHER -> <<>>

StringifyMembers(m, i, first) ==
    IF i > Len(m) THEN <<>>
    ELSE IF m[i][2].k = "undef" THEN StringifyMembers(m, i + 1, first)
    ELSE (IF first THEN <<>> ELSE <<Comma>>)
         \o <<TStr(m[i][1]), Colon>> \o JSONStringify(m[i][2])
         \o StringifyMembers(m, i + 1, FALSE)

ParseFail == [ok |-> FALSE, v |-> JUndef, n |-> 0]
ParseOk(v, n) == [ok |-> TRUE, v |-> v, n |-> n]

\* JSON.parse by recursive descent; n is the index of the next unread token.
RECURSIVE ParseValue(_, _), ParseMembers(_, _, _)
ParseValue(toks, i) ==
    IF i > Len(toks) THEN ParseFail
    ELSE CASE toks[i].t = "null" -> ParseOk(JNull, i + 1)
           [] toks[i].t = "str" -> ParseOk(JStr(toks[i].v), i + 1)
           [] toks[i].t = "num" -> ParseOk(JNum(toks[i].v), i + 1)
           [] toks[i] = LBrace ->
                IF i + 1 <= Len(toks) /\ toks[i + 1] = RBrace
                THEN ParseOk(JObj(<<>>), i + 2)
                ELSE ParseMembers(toks, i + 1, <<>>)
           [] OTHER -> ParseFail

ParseMembers(toks, i, acc) ==
    IF i + 1 > Len(toks) THEN ParseFail
    ELSE IF toks[i].t # "str" \/ toks[i + 1] # Colon THEN ParseFail
    ELSE LET r == ParseValue(toks, i + 2)
         IN  IF ~r.ok \/ r.n > Len(toks) THEN ParseFail
             ELSE IF toks[r.n] = Comma
                  THEN ParseMembers(toks, r.n + 1, Append(acc, <<toks[i].v, r.v>>))
             ELSE IF toks[r.n] = RBrace
                  THEN ParseOk(JObj(Append(acc, <<toks[i].v, r.v>>)), r.n + 1)
             ELSE ParseFail

\* ok is FALSE where JSON.parse throws a SyntaxError
JSONParse(raw) ==
    LET r == ParseValue(raw, 1)
    IN  IF r.ok /\ r.n = Len(raw) + 1
        THEN [ok |-> TRUE, v |-> r.v]
        ELSE [ok |-> FALSE, v |-> JUndef]

\* ------------------------------------------------------------ the versions

Variants == {"A", "B", "C"}

\* the cases of the router's switch
RouterCases(v) ==
    IF v = "A"
    THEN {"location", "camera", "gallery", "file-picker", "notification"}
    ELSE {"notification", "file-picker", "camera", "gallery"}

\* the methods of the injected window.NativeBridge
BridgeMethods(v) ==
    CASE v = "A" -> {"getLocation", "takePhoto", "pickImage", "pickFile", "showNotification"}
      [] v = "B" -> {"showNotification", "pickFile", "takePhoto", "pickImage"}
      [] v = "C" -> {"getLocation", "takePhoto", "pickImage", "showNotification"}

\* the message a bridge method serializes; title and body are its arguments
BridgeMessage(method, title, body) ==
    CASE method = "getLocation" -> JObj(<< <<"type", JStr("location")>> >>)
      [] method = "takePhoto" -> JObj(<< <<"type", JStr("camera")>> >>)
      [] method = "pickImage" -> JObj(<< <<"type", JStr("gallery")>> >>)
      [] method = "pickFile" -> JObj(<< <<"type", JStr("file-picker")>> >>)
      [] method = "showNotification" ->
            JObj(<< <<"type", JStr("notification")>>,
                    <<"data", JObj(<< <<"title", title>>, <<"body", body>> >>)>> >>)

\* only part_000 registers a hardwareBackPress listener and passes
\* onNavigationStateChange; only the other two pass onError and onLoadStart
HasBackHandler(v) == v = "A"
HasErrorHandler(v) == v # "A"

\* the notification defaults of the router's notification case
DefaultTitle == JStr("Notification")
DefaultBody(v) ==
    CASE v = "A" -> JStr("")
      [] v = "B" -> JStr("Notification from webview")
      [] v = "C" -> JStr("You have a new notification")

NotificationTitle(v, data) ==
    IF v = "A" THEN Nullish(GetProp(data, "title"), DefaultTitle)
    ELSE OrElse(GetProp(data, "title"), DefaultTitle)

\* faulty version: the body read from data.title
NotificationBodyFromTitle(v, data) ==
    IF v = "A" THEN Nullish(GetProp(data, "title"), DefaultBody(v))
    ELSE OrElse(GetProp(data, "title"), DefaultBody(v))

NotificationBody(v, data) ==
    IF v = "A" THEN Nullish(GetProp(data, "body"), DefaultBody(v))
    ELSE OrElse(GetProp(data, "body"), DefaultBody(v))

\* ------------------------------------------------------------ platform calls

Call(api, title, body, trigger) ==
    [api |-> api, title |-> title, body |-> body, trigger |-> trigger]
PlainCall(api) == Call(api, JUndef, JUndef, "")
ScheduleCall(title, body) == Call("scheduleNotificationAsync", title, body, "null")

\* what the platform can answer to the call a task is suspended on
Outcomes(pc) ==
    CASE pc = "permission" -> {"granted", "denied", "undetermined", "reject"}
      [] pc = "position" -> {"ok", "reject"}
      [] pc = "picker" -> {"picked", "canceled", "noassets", "reject"}
      [] pc = "schedule" -> {"ok", "reject"}
      [] pc = "getPermissions" -> {"granted", "denied", "reject"}
      [] pc = "requestPermissions" -> {"ok", "reject"}
      [] OTHER -> {}

\* the platform capability a message type stands for
Capability(type) ==
    CASE type = "location" -> "requestForegroundPermissionsAsync"
      [] type = "camera" -> "launchCameraAsync"
      [] type = "gallery" -> "launchImageLibraryAsync"
      [] type = "file-picker" -> "getDocumentAsync"
      [] type = "notification" -> "scheduleNotificationAsync"
      [] OTHER -> "none"

\* ------------------------------------------------------------ replies

Envelope(type, data) == JObj(<< <<"type", JStr(type)>>, <<"data", data>> >>)

LocationData ==
    JObj(<< <<"latitude", JNum("lat")>>, <<"longitude", JNum("lng")>>,
            <<"accuracy", JNum("acc")>>, <<"timestamp", JNum("ts")>> >>)
ErrorData(text) == JObj(<< <<"message", JStr(text)>> >>)

\* result.assets[0] of a picker, and what each version sends of it
ImageAsset ==
    JObj(<< <<"uri", JStr("file:image")>>, <<"width", JNum("w")>>,
            <<"height", JNum("h")>>, <<"type", JStr("image")>> >>)
FileAsset ==
    JObj(<< <<"name", JStr("doc")>>, <<"uri", JStr("file:doc")>>,
            <<"size", JNum("n")>>, <<"mimeType", JStr("text/plain")>> >>)
Pick(asset, keys) == JObj([i \in 1..Len(keys) |-> <<keys[i], GetProp(asset, keys[i])>>])
ImageData(v) ==
    IF v = "A" THEN ImageAsset ELSE Pick(ImageAsset, <<"uri", "width", "height">>)
FileData(v) ==
    IF v = "A" THEN FileAsset ELSE Pick(FileAsset, <<"name", "uri", "size", "mimeType">>)

\* faulty version: handleGallery answering with the camera's tag
ReplyTypeOfSwapped(kind) ==
    CASE kind = "camera" -> "image-captured"
      [] kind = "gallery" -> "image-captured"
      [] kind = "file-picker" -> "file-selected"
      [] OTHER -> "none"

ReplyTypeOf(kind) ==
    CASE kind = "camera" -> "image-captured"
      [] kind = "gallery" -> "image-selected"
      [] kind = "file-picker" -> "file-selected"
      [] OTHER -> "none"
ReplyDataOf(v, kind) == IF kind = "file-picker" THEN FileData(v) ELSE ImageData(v)

\* ------------------------------------------------------------ state

VARIABLES
    variant,     \* which version of the component runs
    isLoading,   \* useState(true)
    error,       \* useState(null): NoError, or the text set by handleError
    canGoBack,   \* useState(false)
    backClosure, \* the canGoBack the registered handleBackPress closed over
    page,        \* the browser surface: "none", "loading", "loaded", "failed"
    msgs,        \* one record per inbound message, in order of arrival
    perms,       \* one record per run of requestPermissions
    backs,       \* one record per hardware back press
    loads,       \* page loads started
    navs,        \* navigation-state changes reported
    toHost,      \* texts the page posted that onMessage has not received yet
    toPage       \* texts the host posted that the page has not received yet

vars == <<variant, isLoading, error, canGoBack, backClosure, page, msgs, perms,
          backs, loads, navs, toHost, toPage>>

NoError == <<>>
ErrorText(description) == <<"WebView Error: ", description>>

\* if (error) return <View>...: the WebView is rendered, and webViewRef.current
\* is set, only while error is null
WebViewMounted == error = NoError

\* ------------------------------------------------------------ the router

\* a message's task: type is message.type ("none": no string), kind the
\* handler started ("none": no handler), pc the
\* call it is suspended on, calls the platform calls made for it, replies the
\* texts posted to the page for it, res the platform's answers so far
Task(raw, type, kind, pc, calls) ==
    [raw |-> raw, type |-> type, kind |-> kind, pc |-> pc, calls |-> calls,
     replies |-> <<>>, res |-> <<>>, caught |-> FALSE, escaped |-> FALSE,
     unhandled |-> FALSE, alerted |-> FALSE]

\* faulty version: the camera case without its break: it falls through to gallery
StartHandlerFallThrough(v, raw, type, data) ==
    CASE type = "location" ->
            Task(raw, type, type, "permission",
                 <<PlainCall("requestForegroundPermissionsAsync")>>)
      [] type = "camera" ->
            Task(raw, type, type, "picker",
                 <<PlainCall(Capability(type)), PlainCall(Capability("gallery"))>>)
      [] type \in {"gallery", "file-picker"} ->
            Task(raw, type, type, "picker", <<PlainCall(Capability(type))>>)
      [] type = "notification" ->
            Task(raw, type, type, "schedule",
                 <<ScheduleCall(NotificationTitle(v, data), NotificationBody(v, data))>>)

\* the async handler of a case runs up to its first await
StartHandler(v, raw, type, data) ==
    CASE type = "location" ->
            Task(raw, type, type, "permission",
                 <<PlainCall("requestForegroundPermissionsAsync")>>)
      [] type \in {"camera", "gallery", "file-picker"} ->
            Task(raw, type, type, "picker", <<PlainCall(Capability(type))>>)
      [] type = "notification" ->
            Task(raw, type, type, "schedule",
                 <<ScheduleCall(NotificationTitle(v, data), NotificationBody(v, data))>>)

\* faulty version: the router without its try block: what JSON.parse or the read of
\* .type throws leaves the handler
handleMessageNoCatch(v, raw) ==
    LET p == JSONParse(raw)
        threw == ~p.ok \/ p.v.k = "null"
        type == GetProp(p.v, "type")
        tag == IF type.k = "str" THEN type.s ELSE "none"
    IN  IF threw
        THEN [Task(raw, "none", "none", "done", <<>>) EXCEPT !.escaped = TRUE]
        ELSE IF tag \in RouterCases(v)
        THEN StartHandler(v, raw, tag, GetProp(p.v, "data"))
        ELSE Task(raw, tag, "none", "done", <<>>)

\* faulty version: a default case that tells the page about the unknown type
handleMessageDefaultReplies(v, raw) ==
    LET p == JSONParse(raw)
        threw == ~p.ok \/ p.v.k = "null"
        type == GetProp(p.v, "type")
        tag == IF type.k = "str" THEN type.s ELSE "none"
    IN  IF threw
        THEN [Task(raw, "none", "none", "done", <<>>) EXCEPT !.caught = TRUE]
        ELSE IF tag \in RouterCases(v)
        THEN StartHandler(v, raw, tag, GetProp(p.v, "data"))
        ELSE [Task(raw, tag, "none", "done", <<>>) EXCEPT
                 !.replies = <<JSONStringify(Envelope("unknown-type", JStr(tag)))>>]

\* faulty version: the switch's default falling into the notification case
handleMessageDefaultFalls(v, raw) ==
    LET p == JSONParse(raw)
        threw == ~p.ok \/ p.v.k = "null"
        type == GetProp(p.v, "type")
        tag == IF type.k = "str" THEN type.s ELSE "none"
    IN  IF threw
        THEN [Task(raw, "none", "none", "done", <<>>) EXCEPT !.caught = TRUE]
        ELSE IF tag \in RouterCases(v)
        THEN StartHandler(v, raw, tag, GetProp(p.v, "data"))
        ELSE [StartHandler(v, raw, "notification", GetProp(p.v, "data"))
                 EXCEPT !.type = tag]

\* handleMessage / onMessage: the try block, and the catch that only logs
handleMessage(v, raw) ==
    LET p == JSONParse(raw)
        threw == ~p.ok \/ p.v.k = "null"
        type == GetProp(p.v, "type")
        tag == IF type.k = "str" THEN type.s ELSE "none"
    IN  IF threw
        THEN [Task(raw, "none", "none", "done", <<>>) EXCEPT !.caught = TRUE]
        ELSE IF tag \in RouterCases(v)
        THEN StartHandler(v, raw, tag, GetProp(p.v, "data"))
        ELSE Task(raw, tag, "none", "done", <<>>)

\* webViewRef.current?.postMessage(JSON.stringify(value))
Post(t, ref, value) ==
    IF ref THEN [t EXCEPT !.replies = Append(@, JSONStringify(value))] ELSE t

Finish(t) == [t EXCEPT !.pc = "done"]

\* a rejection inside a try block of versions B and C: logged (and, for the
\* pickers, an alert); without a try block the promise of the handler rejects
\* and nothing handles it
Rejected(v, t) ==
    IF v = "A"
    THEN [Finish(t) EXCEPT !.unhandled = TRUE]
    ELSE [Finish(t) EXCEPT !.caught = TRUE, !.alerted = (t.kind # "notification")]

\* faulty version: handleLocation without the return after "Permission denied"
ContinueLocationNoReturn(t, o, ref) ==
    CASE o = "reject" ->
            [Finish(Post(t, ref, Envelope("location-error", ErrorData("Failed to fetch location"))))
                EXCEPT !.caught = TRUE]
      [] t.pc = "permission" /\ o = "granted" ->
            [t EXCEPT !.pc = "position",
                      !.calls = Append(@, PlainCall("getCurrentPositionAsync"))]
      [] t.pc = "permission" /\ o # "granted" ->
            [Post(t, ref, Envelope("location-error", ErrorData("Permission denied")))
                EXCEPT !.pc = "position",
                       !.calls = Append(@, PlainCall("getCurrentPositionAsync"))]
      [] t.pc = "position" /\ o = "ok" ->
            Finish(Post(t, ref, Envelope("location", LocationData)))

\* handleLocation after an await
ContinueLocation(t, o, ref) ==
    CASE o = "reject" ->
            [Finish(Post(t, ref, Envelope("location-error", ErrorData("Failed to fetch location"))))
                EXCEPT !.caught = TRUE]
      [] t.pc = "permission" /\ o = "granted" ->
            [t EXCEPT !.pc = "position",
                      !.calls = Append(@, PlainCall("getCurrentPositionAsync"))]
      [] t.pc = "permission" /\ o # "granted" ->
            Finish(Post(t, ref, Envelope("location-error", ErrorData("Permission denied"))))
      [] t.pc = "position" /\ o = "ok" ->
            Finish(Post(t, ref, Envelope("location", LocationData)))

\* faulty version: the pickers testing only result.canceled, not result.assets
ContinuePickerNoAssetCheck(v, t, o, ref) ==
    CASE o = "reject" -> Rejected(v, t)
      [] o \in {"picked", "noassets"} ->
            Finish(Post(t, ref, Envelope(ReplyTypeOf(t.kind), ReplyDataOf(v, t.kind))))
      [] OTHER -> Finish(t)

\* handleFilePicker / handleCamera / handleGallery after the await
ContinuePicker(v, t, o, ref) ==
    CASE o = "reject" -> Rejected(v, t)
      [] o = "picked" -> Finish(Post(t, ref, Envelope(ReplyTypeOf(t.kind), ReplyDataOf(v, t.kind))))
      [] OTHER -> Finish(t)

\* showNotification after an await; part_001 goes on to query the permission
ContinueNotification(v, t, o) ==
    CASE o = "reject" -> Rejected(v, t)
      [] t.pc = "schedule" /\ v = "C" ->
            [t EXCEPT !.pc = "getPermissions",
                      !.calls = Append(@, PlainCall("getPermissionsAsync"))]
      [] t.pc = "getPermissions" /\ o # "granted" ->
            [t EXCEPT !.pc = "requestPermissions",
                      !.calls = Append(@, PlainCall("requestPermissionsAsync"))]
      [] OTHER -> Finish(t)

\* the task resumes with the platform's answer o and runs to its next await
Continue(v, t, o, ref) ==
    LET r == [t EXCEPT !.res = Append(@, o)]
    IN  CASE t.kind = "location" -> ContinueLocation(r, o, ref)
          [] t.kind = "notification" -> ContinueNotification(v, r, o)
          [] OTHER -> ContinuePicker(v, r, o, ref)

\* ------------------------------------------------------------ inputs

TypeOnly(type) == <<LBrace, TStr("type"), Colon, TStr(type), RBrace>>

\* texts that JSON.parse rejects, or that parse to a value without a type
MalformedInputs ==
    { <<TBad("oops")>>,
      <<LBrace, TStr("type"), Colon, TStr("location")>>,
      <<LBrace, TStr("type"), TStr("camera"), RBrace>>,
      <<TNull>> }

\* well-formed texts of the five request types
RequestInputs ==
    { TypeOnly("location"), TypeOnly("camera"), TypeOnly("gallery"),
      TypeOnly("file-picker"), TypeOnly("notification"),
      JSONStringify(Envelope("notification",
          JObj(<< <<"title", JStr("T")>>, <<"body", JStr("B")>> >>))) }

\* well-formed texts of no request type
OtherInputs ==
    { <<LBrace, RBrace>>, <<TStr("camera")>>,
      JSONStringify(Envelope("console-log", JStr("line"))),
      TypeOnly("image-captured") }

RawInputs == MalformedInputs \cup RequestInputs \cup OtherInputs

AllBridgeMethods ==
    {"getLocation", "takePhoto", "pickImage", "pickFile", "showNotification"}

\* the (title, body) a page passes to NativeBridge.showNotification; the second
\* is showNotification("") with no body
BridgeArgs == { <<JStr("T"), JStr("B")>>, <<JStr(""), JUndef>> }

LoadErrors == {"net::ERR_FAILED"}

\* ------------------------------------------------------------ the host

PermissionRun == [pc |-> "notifications", unhandled |-> FALSE, caught |-> FALSE]

NextPermission(pc) ==
    CASE pc = "notifications" -> "camera"
      [] pc = "camera" -> "mediaLibrary"
      [] OTHER -> "done"

\* requestPermissions after an await: part_000 has no try block
ContinuePermissions(v, r, o) ==
    IF o = "reject"
    THEN IF v = "A" THEN [r EXCEPT !.pc = "done", !.unhandled = TRUE]
         ELSE [r EXCEPT !.pc = "done", !.caught = TRUE]
    ELSE [r EXCEPT !.pc = NextPermission(r.pc)]

\* faulty version: handleBackPress that does not look at canGoBack
handleBackPressAlways(closure, ref) == ref

\* handleBackPress, with the canGoBack it closed over
handleBackPress(closure, ref) == closure /\ ref

Init ==
    /\ variant \in Variants
    /\ isLoading = TRUE
    /\ error = NoError
    /\ canGoBack = FALSE
    /\ backClosure = FALSE
    /\ page = "none"
    /\ msgs = <<>>
    /\ perms = <<PermissionRun>>
    /\ backs = <<>>
    /\ loads = 0
    /\ navs = 0
    /\ toHost = <<>>
    /\ toPage = <<>>

\* the page posts a text to window.ReactNativeWebView: onMessage runs the router
PagePost(raw) ==
    /\ WebViewMounted
    /\ page \in {"loading", "loaded"}
    /\ Len(msgs) < MaxMsgs
    /\ msgs' = Append(msgs, handleMessage(variant, raw))
    /\ UNCHANGED <<variant, toHost, toPage, isLoading, error, canGoBack, backClosure, page,
                   perms, backs, loads, navs>>

\* the page calls a method of the injected NativeBridge
BridgeCall(method, args) ==
    /\ WebViewMounted
    /\ page = "loaded"
    /\ method \in BridgeMethods(variant)
    /\ Len(msgs) < MaxMsgs
    /\ msgs' = Append(msgs, handleMessage(variant,
                    JSONStringify(BridgeMessage(method, args[1], args[2]))))
    /\ UNCHANGED <<variant, toHost, toPage, isLoading, error, canGoBack, backClosure, page,
                   perms, backs, loads, navs>>

\* faulty version: a router that awaits each handler before it serves the next
\* message, so a task resumes only after every earlier one has finished
PlatformAnswerInOrder(i, o) ==
    /\ i \in DOMAIN msgs
    /\ \A k \in 1..(i - 1) : msgs[k].pc = "done"
    /\ o \in Outcomes(msgs[i].pc)
    /\ msgs' = [msgs EXCEPT ![i] = Continue(variant, @, o, WebViewMounted)]
    /\ UNCHANGED <<variant, toHost, toPage, isLoading, error, canGoBack, backClosure, page,
                   perms, backs, loads, navs>>

\* the platform settles the call task i is suspended on
PlatformAnswer(i, o) ==
    /\ i \in DOMAIN msgs
    /\ o \in Outcomes(msgs[i].pc)
    /\ msgs' = [msgs EXCEPT ![i] = Continue(variant, @, o, WebViewMounted)]
    /\ UNCHANGED <<variant, toHost, toPage, isLoading, error, canGoBack, backClosure, page,
                   perms, backs, loads, navs>>

\* faulty version: part_000 given the onLoadStart of the other two versions
LoadStartAlways ==
    /\ WebViewMounted
    /\ page \in {"none", "loaded"}
    /\ loads < MaxLoads
    /\ page' = "loading"
    /\ loads' = loads + 1
    /\ isLoading' = TRUE
    /\ error' = NoError
    /\ UNCHANGED <<variant, toHost, toPage, canGoBack, backClosure, msgs, perms, backs, navs>>

\* the browser starts loading a page: onLoadStart (versions B and C)
LoadStart ==
    /\ WebViewMounted
    /\ page \in {"none", "loaded"}
    /\ loads < MaxLoads
    /\ page' = "loading"
    /\ loads' = loads + 1
    /\ IF HasErrorHandler(variant)
       THEN isLoading' = TRUE /\ error' = NoError
       ELSE UNCHANGED <<isLoading, error>>
    /\ UNCHANGED <<variant, toHost, toPage, canGoBack, backClosure, msgs, perms, backs, navs>>

\* the page finished loading: onLoad
LoadSuccess ==
    /\ WebViewMounted
    /\ page = "loading"
    /\ page' = "loaded"
    /\ isLoading' = FALSE
    /\ error' = IF HasErrorHandler(variant) THEN NoError ELSE error
    /\ UNCHANGED <<variant, toHost, toPage, canGoBack, backClosure, msgs, perms, backs, loads, navs>>

\* faulty version: handleError without its setIsLoading(false)
LoadFailureKeepsLoading(description) ==
    /\ WebViewMounted
    /\ page = "loading"
    /\ page' = "failed"
    /\ IF HasErrorHandler(variant)
       THEN error' = ErrorText(description) /\ UNCHANGED isLoading
       ELSE UNCHANGED <<isLoading, error>>
    /\ UNCHANGED <<variant, toHost, toPage, canGoBack, backClosure, msgs, perms, backs, loads, navs>>

\* the load failed: onError = handleError (versions B and C); part_000 passes
\* no onError, so nothing of the host changes
LoadFailure(description) ==
    /\ WebViewMounted
    /\ page = "loading"
    /\ page' = "failed"
    /\ IF HasErrorHandler(variant)
       THEN error' = ErrorText(description) /\ isLoading' = FALSE
       ELSE UNCHANGED <<isLoading, error>>
    /\ UNCHANGED <<variant, toHost, toPage, canGoBack, backClosure, msgs, perms, backs, loads, navs>>

\* onNavigationStateChange: setCanGoBack(nav.canGoBack). A changed value
\* re-renders: handleBackPress is rebuilt (deps [canGoBack]) and the effect
\* that depends on it runs again, calling requestPermissions and registering
\* the new handler.
NavigationStateChange(b) ==
    /\ HasBackHandler(variant)
    /\ WebViewMounted
    /\ page # "none"
    /\ navs < MaxNav
    /\ navs' = navs + 1
    /\ canGoBack' = b
    /\ IF b # canGoBack
       THEN backClosure' = b /\ perms' = Append(perms, PermissionRun)
       ELSE UNCHANGED <<backClosure, perms>>
    /\ UNCHANGED <<variant, toHost, toPage, isLoading, error, page, msgs, backs, loads>>

\* a hardware back press: the registered handleBackPress decides; versions B
\* and C register no listener, so the press is never consumed
HardwareBackPress ==
    /\ Len(backs) < MaxBack
    /\ LET go == HasBackHandler(variant) /\ handleBackPress(backClosure, WebViewMounted)
       IN  backs' = Append(backs, [reported |-> canGoBack, goBack |-> go, consumed |-> go])
    /\ UNCHANGED <<variant, toHost, toPage, isLoading, error, canGoBack, backClosure, page, msgs,
                   perms, loads, navs>>

\* the platform settles the permission request run i is suspended on
PermissionAnswer(i, o) ==
    /\ i \in DOMAIN perms
    /\ perms[i].pc # "done"
    /\ perms' = [perms EXCEPT ![i] = ContinuePermissions(variant, @, o)]
    /\ UNCHANGED <<variant, toHost, toPage, isLoading, error, canGoBack, backClosure, page, msgs,
                   backs, loads, navs>>

RouterNext ==
    \/ \E method \in AllBridgeMethods, args \in BridgeArgs : BridgeCall(method, args)
    \/ \E raw \in RawInputs : PagePost(raw)
    \/ \E i \in 1..MaxMsgs, o \in {"granted", "denied", "undetermined", "ok", "picked",
                                   "canceled", "noassets", "reject"} : PlatformAnswer(i, o)

LoadNext ==
    \/ LoadStart
    \/ LoadSuccess
    \/ \E d \in LoadErrors : LoadFailure(d)

HostNext ==
    \/ \E b \in BOOLEAN : NavigationStateChange(b)
    \/ HardwareBackPress
    \/ \E i \in 1..(MaxNav + 1), o \in {"ok", "reject"} : PermissionAnswer(i, o)

Next == RouterNext \/ LoadNext \/ HostNext

\* ------------------------------------------------------------ the two channels
\* The steps above take a post of the page and the router's run on it as one
\* step and keep what the host posts in the task's replies. The steps below
\* keep both directions in flight, for the versions whose injected script
\* answers what it receives: window.console.log posts a console-log message,
\* and the message listener logs every text that arrives from the host.

HasConsoleShim(v) == v # "A"

\* what the replaced console.log posts for the listener's line. The data is
\* the array of the arguments; the router reads only the type, so the array
\* is written as its first element.
ConsoleLogMessage ==
    JSONStringify(Envelope("console-log", JStr("Received message from native:")))

\* requests the page has made so far, received or not: every text but the
\* shim's own
PageRequests ==
    Cardinality({i \in DOMAIN msgs : msgs[i].raw # ConsoleLogMessage})
    + Cardinality({k \in DOMAIN toHost : toHost[k] # ConsoleLogMessage})

\* the page calls a method of the injected NativeBridge: the text is posted
PageBridgeCall(method, args) ==
    /\ WebViewMounted
    /\ page = "loaded"
    /\ method \in BridgeMethods(variant)
    /\ PageRequests < MaxMsgs
    /\ toHost' = Append(toHost, JSONStringify(BridgeMessage(method, args[1], args[2])))
    /\ UNCHANGED <<variant, isLoading, error, canGoBack, backClosure, page, msgs,
                   perms, backs, loads, navs, toPage>>

\* onMessage receives the oldest text in flight and runs the router on it.
\* Once the error screen has replaced the WebView there is no onMessage: the
\* text is dropped with the view.
HostReceive ==
    /\ toHost # <<>>
    /\ toHost' = Tail(toHost)
    /\ IF WebViewMounted
       THEN LET t == handleMessage(variant, Head(toHost))
            IN  msgs' = Append(msgs, t) /\ toPage' = toPage \o t.replies
       ELSE UNCHANGED <<msgs, toPage>>
    /\ UNCHANGED <<variant, isLoading, error, canGoBack, backClosure, page,
                   perms, backs, loads, navs>>

\* the platform settles the call task i is suspended on; what the task posts
\* goes in flight to the page
PlatformReply(i, o) ==
    /\ i \in DOMAIN msgs
    /\ o \in Outcomes(msgs[i].pc)
    /\ LET t == Continue(variant, msgs[i], o, WebViewMounted)
       IN  /\ msgs' = [msgs EXCEPT ![i] = t]
           /\ toPage' = toPage \o SubSeq(t.replies, Len(msgs[i].replies) + 1,
                                         Len(t.replies))
    /\ UNCHANGED <<variant, isLoading, error, canGoBack, backClosure, page,
                   perms, backs, loads, navs, toHost>>

\* the oldest text in flight reaches the page. Where the script is injected
\* and the document loaded, the listener calls console.log and the shim posts
\* one console-log message; part_000 installs no listener.
PageReceive ==
    /\ toPage # <<>>
    /\ toPage' = Tail(toPage)
    /\ toHost' = IF HasConsoleShim(variant) /\ WebViewMounted /\ page = "loaded"
                 THEN Append(toHost, ConsoleLogMessage)
                 ELSE toHost
    /\ UNCHANGED <<variant, isLoading, error, canGoBack, backClosure, page, msgs,
                   perms, backs, loads, navs>>

\* the steps that take the oldest text off a channel: those of HostReceive and
\* of PageReceive, and no others
HostDelivers == toHost # <<>> /\ toHost' = Tail(toHost)
PageDelivers == toPage # <<>> /\ toPage' = Tail(toPage)

ChannelNext ==
    \/ \E method \in AllBridgeMethods, args \in BridgeArgs : PageBridgeCall(method, args)
    \/ HostReceive
    \/ \E i \in 1..(2 * MaxMsgs),
          o \in {"granted", "denied", "undetermined", "ok", "picked",
                 "canceled", "noassets", "reject"} : PlatformReply(i, o)
    \/ PageReceive

\* the whole host
Spec == Init /\ [][Next]_vars

\* the router and the page's load cycle; the back handler, the navigation flag
\* and the permission sequence neither read nor write what the router uses
SpecRouter == Init /\ [][RouterNext \/ LoadNext]_vars

\* the host shell without the page's messages
SpecHost == Init /\ [][LoadNext \/ HostNext]_vars

\* the router with both channels in flight. The event loops of the host and of
\* the page deliver every text that is in flight; nothing makes the page post,
\* the platform answer or a load end.
SpecChannel ==
    /\ Init
    /\ [][ChannelNext \/ LoadNext]_vars
    /\ WF_toHost(HostDelivers)
    /\ WF_toPage(PageDelivers)

\* ------------------------------------------------------------ properties

RequestTypes == {"location", "camera", "gallery", "file-picker", "notification"}

\* the type tag an inbound text carries, "none" when it carries none
InboundType(raw) ==
    LET p == JSONParse(raw)
        type == GetProp(p.v, "type")
    IN  IF p.ok /\ type.k = "str" THEN type.s ELSE "none"

InboundData(raw) == GetProp(JSONParse(raw).v, "data")

\* the type tags of the texts posted to the page for a message
ReplyTypes(t) == [k \in DOMAIN t.replies |-> InboundType(t.replies[k])]

Apis(t) == [k \in DOMAIN t.calls |-> t.calls[k].api]

\* C1: an inbound text that is not valid JSON, or that parses to null, makes
\* the router return normally: no exception leaves it, no platform call is
\* made and nothing is posted to the page.
C1_MalformedIsSwallowed ==
    \A i \in DOMAIN msgs :
        msgs[i].raw \in MalformedInputs =>
            /\ ~msgs[i].escaped
            /\ ~msgs[i].unhandled
            /\ msgs[i].calls = <<>>
            /\ msgs[i].replies = <<>>
            /\ msgs[i].pc = "done"

C1_Witness ==
    /\ \E i \in DOMAIN msgs : msgs[i].raw = <<TNull>> /\ msgs[i].caught
    /\ \E i \in DOMAIN msgs : msgs[i].raw = <<TBad("oops")>> /\ msgs[i].caught

\* C2 as written: every inbound message of a request type leads to exactly one
\* platform call, the one of its capability.
C2_ExactlyOneCall ==
    \A i \in DOMAIN msgs :
        msgs[i].type \in RequestTypes =>
            Apis(msgs[i]) = <<Capability(msgs[i].type)>>

\* C2 as amended: a message of a type the running router has a case for (all
\* five in part_000, all but location in the other two) starts exactly one
\* handler, whose first call is the capability of the type, made once; the
\* pickers make no other call, location adds the position fetch once the
\* permission is granted, notification adds in part_001 a permission query
\* and, when that is not granted, a permission request. A location message
\* to a router without a location case makes no call.
C2_OneHandlerPerRequest ==
    \A i \in DOMAIN msgs :
        LET type == msgs[i].type
            apis == Apis(msgs[i])
            n == Len(apis)
        IN  /\ (type = "location" /\ variant # "A") => apis = <<>>
            /\ (type \in RequestTypes /\ (type # "location" \/ variant = "A")) =>
                /\ n >= 1
                /\ apis[1] = Capability(type)
                /\ \A k \in 2..n : apis[k] # Capability(type)
                /\ type \in {"camera", "gallery", "file-picker"} => n = 1
                /\ type = "location" =>
                    /\ n <= 2
                    /\ n = 2 => /\ apis[2] = "getCurrentPositionAsync"
                                /\ msgs[i].res[1] = "granted"
                /\ (type = "notification" /\ variant # "C") => n = 1
                /\ (type = "notification" /\ variant = "C") =>
                    /\ n <= 3
                    /\ n >= 2 => apis[2] = "getPermissionsAsync"
                    /\ n = 3 => /\ apis[3] = "requestPermissionsAsync"
                                /\ msgs[i].res[2] = "denied"

C2_Witness ==
    /\ variant = "A"
    /\ \E i \in DOMAIN msgs :
        /\ msgs[i].type = "location"
        /\ msgs[i].pc = "done"
        /\ Len(msgs[i].calls) = 2
    /\ \E i \in DOMAIN msgs :
        /\ msgs[i].type = "camera"
        /\ msgs[i].pc = "done"

\* C3: when the foreground location permission request of a location message
\* resolves with a status other than granted, exactly one text is posted for
\* that message, of type location-error, and the position is never fetched.
C3_DeniedGivesLocationError ==
    \A i \in DOMAIN msgs :
        ( /\ msgs[i].type = "location"
          /\ msgs[i].res # <<>>
          /\ msgs[i].res[1] \in {"denied", "undetermined"} ) =>
            /\ ReplyTypes(msgs[i]) = <<"location-error">>
            /\ \A k \in DOMAIN msgs[i].calls :
                   msgs[i].calls[k].api # "getCurrentPositionAsync"
            /\ msgs[i].pc = "done"

C3_Witness ==
    \E i \in DOMAIN msgs :
        /\ msgs[i].type = "location"
        /\ msgs[i].res = <<"denied">>
        /\ Len(msgs[i].replies) = 1

\* C4: a camera, gallery or file-picker flow that ends canceled, or without
\* assets, posts nothing to the page for its message.
C4_CancelIsSilent ==
    \A i \in DOMAIN msgs :
        ( /\ msgs[i].type \in {"camera", "gallery", "file-picker"}
          /\ msgs[i].res # <<>>
          /\ msgs[i].res[1] \in {"canceled", "noassets"} ) =>
            msgs[i].replies = <<>>

C4_Witness ==
    /\ \E i \in DOMAIN msgs :
        /\ msgs[i].type \in {"camera", "gallery"}
        /\ msgs[i].res = <<"canceled">>
        /\ msgs[i].pc = "done"
    /\ \E i \in DOMAIN msgs :
        /\ msgs[i].type = "file-picker"
        /\ msgs[i].res = <<"noassets">>
        /\ msgs[i].pc = "done"

Absent(x) == x.k = "undef"

\* C5 as written: a notification message schedules one immediate notification
\* with title data.title, or "Notification" when absent, and body data.body,
\* or "" when absent; no other call, no exception, nothing posted.
C5_NotificationDefaults ==
    \A i \in DOMAIN msgs :
        msgs[i].type = "notification" =>
            LET title == GetProp(InboundData(msgs[i].raw), "title")
                body == GetProp(InboundData(msgs[i].raw), "body")
            IN  /\ msgs[i].calls =
                      <<ScheduleCall(IF Absent(title) THEN JStr("Notification") ELSE title,
                                     IF Absent(body) THEN JStr("") ELSE body)>>
                /\ msgs[i].replies = <<>>
                /\ ~msgs[i].escaped

\* what each version takes for absent, and the body it then uses
C5_Missing(v, x) ==
    x.k \in {"undef", "null"} \/ (v # "A" /\ x = JStr(""))
C5_Body(v) ==
    CASE v = "A" -> ""
      [] v = "B" -> "Notification from webview"
      [] v = "C" -> "You have a new notification"

\* C5 as amended: the first call of a notification message schedules one
\* immediate notification; its title is data.title, or "Notification" when
\* that is missing; its body is data.body, or when that is missing "" in
\* part_000, "Notification from webview" in components/ProductionWebView.tsx
\* and "You have a new notification" in part_001; missing means absent or
\* null, and in the latter two versions also the empty string. Nothing is
\* posted, no exception leaves the router, and the only further calls are
\* part_001's permission query and request.
C5_NotificationPerVersion ==
    \A i \in DOMAIN msgs :
        msgs[i].type = "notification" =>
            LET title == GetProp(InboundData(msgs[i].raw), "title")
                body == GetProp(InboundData(msgs[i].raw), "body")
            IN  /\ Len(msgs[i].calls) >= 1
                /\ msgs[i].calls[1] =
                      ScheduleCall(IF C5_Missing(variant, title)
                                      THEN JStr("Notification") ELSE title,
                                   IF C5_Missing(variant, body)
                                      THEN JStr(C5_Body(variant)) ELSE body)
                /\ \A k \in 2..Len(msgs[i].calls) :
                       /\ variant = "C"
                       /\ msgs[i].calls[k].api \in
                              {"getPermissionsAsync", "requestPermissionsAsync"}
                /\ msgs[i].replies = <<>>
                /\ ~msgs[i].escaped

C5_Witness ==
    /\ variant = "B"
    /\ \E i \in DOMAIN msgs :
        /\ msgs[i].raw = TypeOnly("notification")
        /\ msgs[i].pc = "done"
        /\ msgs[i].res = <<"ok">>
    /\ \E i \in DOMAIN msgs :
        /\ msgs[i].type = "notification"
        /\ GetProp(InboundData(msgs[i].raw), "body") = JStr("B")
        /\ msgs[i].pc = "done"

\* C6: once the browser reports a load failure the host is in the Error state
\* (error set, isLoading false), and from then on no inbound message is
\* processed.
C6_LoadFailureEndsInError ==
    [][ /\ page' = "failed" => (error' # NoError /\ ~isLoading')
        /\ page = "failed" => Len(msgs') = Len(msgs) ]_vars

C8_NoUnhandledRejection ==
    /\ \A i \in DOMAIN msgs :
        /\ ~msgs[i].unhandled
        /\ ( /\ msgs[i].type = "location"
             /\ msgs[i].pc = "done"
             /\ \E k \in DOMAIN msgs[i].res : msgs[i].res[k] = "reject" ) =>
               ReplyTypes(msgs[i]) = <<"location-error">>
    /\ \A j \in DOMAIN perms : ~perms[j].unhandled

AllowedReplies(type) ==
    CASE type = "location" -> {"location", "location-error"}
      [] type = "camera" -> {"image-captured"}
      [] type = "gallery" -> {"image-selected"}
      [] type = "file-picker" -> {"file-selected"}
      [] OTHER -> {}

\* C9: each inbound message gets at most one reply, and the reply's type is
\* fixed by the request's: location or location-error for location,
\* image-captured for camera, image-selected for gallery, file-selected for
\* file-picker, none for anything else.
C9_AtMostOneTypedReply ==
    \A i \in DOMAIN msgs :
        /\ Len(msgs[i].replies) <= 1
        /\ \A k \in DOMAIN msgs[i].replies :
               ReplyTypes(msgs[i])[k] \in AllowedReplies(msgs[i].type)

C9_Witness ==
    /\ \E i \in DOMAIN msgs :
        /\ msgs[i].type = "gallery"
        /\ ReplyTypes(msgs[i]) = <<"image-selected">>
    /\ \E i \in DOMAIN msgs :
        /\ msgs[i].type = "location"
        /\ ReplyTypes(msgs[i]) = <<"location">>

MethodType(method) ==
    CASE method = "getLocation" -> "location"
      [] method = "takePhoto" -> "camera"
      [] method = "pickImage" -> "gallery"
      [] method = "pickFile" -> "file-picker"
      [] method = "showNotification" -> "notification"

\* C10: a call of any NativeBridge method posts exactly one message, of the
\* method's type, and the router of the same host dispatches it to the
\* capability of that type.
C10_BridgeCallIsDispatched ==
    [][ \A method \in AllBridgeMethods, args \in BridgeArgs :
            BridgeCall(method, args) =>
                /\ Len(msgs') = Len(msgs) + 1
                /\ InboundType(msgs'[Len(msgs')].raw) = MethodType(method)
                /\ msgs'[Len(msgs')].calls # <<>>
                /\ msgs'[Len(msgs')].calls[1].api = Capability(MethodType(method)) ]_vars

\* C11: a well-formed inbound message whose type is none of the five request
\* types (console-log, a response-only tag, no type at all) makes the router
\* call no platform capability and post nothing, then and later, and its
\* dispatch leaves isLoading, error and canGoBack as they were.
C11_OtherTypesAreIgnored ==
    [][ /\ \A i \in DOMAIN msgs' :
              msgs'[i].raw \in OtherInputs =>
                  /\ msgs'[i].calls = <<>>
                  /\ msgs'[i].replies = <<>>
                  /\ msgs'[i].pc = "done"
                  /\ ~msgs'[i].escaped
        /\ ( /\ Len(msgs') = Len(msgs) + 1
             /\ msgs'[Len(msgs')].raw \in OtherInputs ) =>
               UNCHANGED <<isLoading, error, canGoBack>> ]_vars

C11_Witness ==
    /\ \E i \in DOMAIN msgs :
           msgs[i].raw = JSONStringify(Envelope("console-log", JStr("line")))
    /\ \E i \in DOMAIN msgs : msgs[i].raw = <<LBrace, RBrace>>
    /\ ~isLoading

\* the host's load state as its render reads it: the error screen when error
\* is set, else the overlay while isLoading, else the page
LoadStateOf(l, e) ==
    IF e # NoError THEN "Error" ELSE IF l THEN "Loading" ELSE "Loaded"

LoadState == LoadStateOf(isLoading, error)

\* C12 as stated: the load state only moves Loading to Loaded or Loading to
\* Error; nothing moves it from Error or from Loaded back to Loading.
C12_OnlyForward ==
    [][ \/ LoadStateOf(isLoading', error') = LoadState
        \/ /\ LoadState = "Loading"
           /\ LoadStateOf(isLoading', error') \in {"Loaded", "Error"} ]_vars

\* C12, amended: Error is absorbing and is entered only from Loading, in the
\* versions that pass onError; Loaded is left only by a new load start, which
\* in those versions puts the host back in Loading; in part_000 the only move
\* is Loading to Loaded.
C12_LoadStateMoves ==
    [][ LET s == LoadState
            t == LoadStateOf(isLoading', error')
        IN  \/ t = s
            \/ s = "Loading" /\ t = "Loaded"
            \/ s = "Loading" /\ t = "Error" /\ HasErrorHandler(variant)
            \/ /\ s = "Loaded" /\ t = "Loading"
               /\ HasErrorHandler(variant)
               /\ loads' = loads + 1 ]_vars

C12_Witness ==
    /\ HasErrorHandler(variant)
    /\ loads = 2
    /\ page = "loading"
    /\ LoadState = "Loading"

\* C13: in every reachable host state, whatever load starts, loads, load
\* failures and navigation reports came before, a set error means isLoading
\* is false.
C13_ErrorImpliesNotLoading ==
    error # NoError => ~isLoading

C13_Witness ==
    /\ error = ErrorText("net::ERR_FAILED")
    /\ ~isLoading
    /\ loads = 2

\* C14: while a task is suspended on a platform call, whatever the call and
\* however long it stays unanswered, (a) every request the page posts next is
\* parsed and started on its platform call, and (b) every other suspended task
\* can be resumed with any answer of the platform, posts its reply when that
\* answer is the position or the pick, and leaves the other tasks as they are.
C14_TasksAreIndependent ==
    [] ( /\ ( /\ \E i \in DOMAIN msgs : msgs[i].pc # "done"
              /\ WebViewMounted
              /\ page \in {"loading", "loaded"}
              /\ Len(msgs) < MaxMsgs ) =>
                \A type \in RouterCases(variant) :
                    ENABLED ( /\ PagePost(TypeOnly(type))
                              /\ msgs'[Len(msgs) + 1].pc # "done"
                              /\ Len(msgs'[Len(msgs) + 1].calls) = 1
                              /\ \A k \in DOMAIN msgs : msgs'[k] = msgs[k] )
         /\ \A j \in DOMAIN msgs :
                (\E i \in 1..(j - 1) : msgs[i].pc # "done") =>
                    \A o \in Outcomes(msgs[j].pc) :
                        ENABLED ( /\ PlatformAnswer(j, o)
                                  /\ \A k \in DOMAIN msgs \ {j} : msgs'[k] = msgs[k]
                                  /\ ( /\ WebViewMounted
                                       /\ o \in {"picked", "ok"}
                                       /\ msgs[j].pc \in {"position", "picker"} ) =>
                                         Len(msgs'[j].replies) = Len(msgs[j].replies) + 1 ) )

C14_Witness ==
    /\ variant = "A"
    /\ Len(msgs) = 2
    /\ msgs[1].pc = "permission" /\ msgs[1].res = <<>>
    /\ msgs[2].type = "location" /\ msgs[2].pc = "done"
    /\ msgs[2].replies = <<JSONStringify(Envelope("location", LocationData))>>

\* C15: the permission sequence is started once, at mount, and no later event
\* starts it again: there is never a second run of requestPermissions.
C15_PermissionsStartedOnce ==
    Len(perms) = 1

RECURSIVE RepliesPosted(_)
\* texts the host has posted to the page so far
RepliesPosted(i) ==
    IF i = 0 THEN 0 ELSE Len(msgs[i].replies) + RepliesPosted(i - 1)

\* console-log texts the shim has posted so far and that were not dropped
ConsoleLogsPosted ==
    Cardinality({i \in DOMAIN msgs : msgs[i].raw = ConsoleLogMessage})
    + Cardinality({k \in DOMAIN toHost : toHost[k] = ConsoleLogMessage})

\* C16: with the console shim and the logging listener injected, the exchange
\* between page and host dies out. The router answers a console-log message
\* with nothing; the shim posts at most one console-log message per text the
\* host posted, so the page's requests bound all traffic; and from some point
\* on nothing is in flight in either direction.
C16_ExchangeQuiesces ==
    /\ [] ( /\ \A i \in DOMAIN msgs :
                  msgs[i].raw = ConsoleLogMessage =>
                      msgs[i].calls = <<>> /\ msgs[i].replies = <<>>
            /\ ConsoleLogsPosted + Len(toPage) <= RepliesPosted(Len(msgs))
            /\ Len(msgs) + Len(toHost) + Len(toPage) <= 2 * MaxMsgs )
    /\ <>[] (toHost = <<>> /\ toPage = <<>>)

C16_Witness ==
    /\ HasConsoleShim(variant)
    /\ \E i \in DOMAIN msgs : msgs[i].replies # <<>>
    /\ \E k \in DOMAIN msgs : msgs[k].raw = ConsoleLogMessage /\ msgs[k].pc = "done"
    /\ toHost = <<>>
    /\ toPage = <<>>

====
